---- MODULE Spec2Model ----
(***************************************************************************)
(* Job orchestration of the MRI super-resolution backend: the job table,   *)
(* the Celery queues, the worker executions of preprocess_pipeline_task    *)
(* and inference_task, and the request handlers that create, read,         *)
(* delete, validate and (re-)dispatch jobs.                                 *)
(***************************************************************************)
EXTENDS Integers, Sequences, FiniteSets, TLC

\* ------------------------------------------------------------------ bounds
\* A behaviour runs under one of three bound profiles (limits): the ids
\* (uuid4 values) handed out, the ids an upload may take, the files of one
\* upload, the messages published, and the worker processes.
PipelineJobs == 3       \* the chain preprocess -> inference -> inference
PipelineFiles == 1
PipelineMsgs == 3
PipelineWorkers == 1
RedispatchFiles == 2    \* one job, dispatched again while pending,
RedispatchMsgs == 2     \* two workers
TenantsJobs == 2        \* two uploads side by side, two workers
TenantsMsgs == 2
MaxWorkers == 2
ServiceJobs == 1        \* JobService called directly: one row,
ServiceClock == 4       \* three timestamps written

Profiles ==
    { [ jobs |-> PipelineJobs, uploads |-> 1, files |-> PipelineFiles,
        msgs |-> PipelineMsgs, workers |-> PipelineWorkers ],
      [ jobs |-> 1, uploads |-> 1, files |-> RedispatchFiles,
        msgs |-> RedispatchMsgs, workers |-> MaxWorkers ],
      [ jobs |-> TenantsJobs, uploads |-> TenantsJobs, files |-> 1,
        msgs |-> TenantsMsgs, workers |-> MaxWorkers ] }
MaxFiles == IF PipelineFiles > RedispatchFiles THEN PipelineFiles ELSE RedispatchFiles

Users == {"u1", "u2"}

\* ---------------------------------------------------------- Optional values
\* Python's None and a present value x.
None == << >>
Some(x) == << x >>

\* Truthiness of an Optional[list] / Optional[str] / Optional[dict-as-set].
TruthyList(o) == o # None /\ o[1] # << >>
TruthyStr(o) == o # None /\ o[1] # ""
TruthySet(o) == o # None /\ o[1] # {}

\* ------------------------------------------------------------- JobStatus
PENDING == "pending"
PROCESSING == "processing"
COMPLETED == "completed"
FAILED == "failed"
JobStatus == {PENDING, PROCESSING, COMPLETED, FAILED}

JOB_TYPE_PREPROCESS == "preprocess"
JOB_TYPE_INFERENCE == "inference"
QUEUE_PREPROCESSING == "preprocessing"
QUEUE_INFERENCE == "inference"
Queues == {QUEUE_PREPROCESSING, QUEUE_INFERENCE}

TASK_PREPROCESS == "app.tasks.preprocess_tasks.preprocess_pipeline_task"
TASK_INFERENCE == "app.tasks.inference_tasks.inference_task"

\* celery_app.conf.task_routes: the queue of a task published without queue=.
task_routes(task) ==
    IF task = TASK_PREPROCESS THEN QUEUE_PREPROCESSING ELSE QUEUE_INFERENCE

\* ------------------------------------------------------------------ paths
\* os.path.join(settings.UPLOAD_DIR, user, f"{file_id}_{name}") of the k-th
\* file of the upload that created job j.
UploadPath(j, k) == [dir |-> "uploads", job |-> j, name |-> "in", idx |-> k]
\* os.path.join(settings.OUTPUT_DIR, job_id, f"{name}_{idx}.nii.gz")
OutputPath(j, name, idx) == [dir |-> "outputs", job |-> j, name |-> name, idx |-> idx]

\* An entry of input_files / output_files: a plain path (str) or an
\* {"hr": .., "lr": ..} dict.
StrEntry(p) == [path |-> p]
PairEntry(hr, lr) == [hr |-> hr, lr |-> lr]
IsDict(entry) == "lr" \in DOMAIN entry

VARIABLES
    jobs,       \* the jobs table: job id -> row
    files,      \* the files table: set of rows [job_id, file_path]
    nextId,     \* next unused uuid
    queue,      \* queue name -> sequence of published, unconsumed messages
    published,  \* number of messages published so far
    workers,    \* running task executions (one per busy worker process)
    req,        \* trigger_job between its status check and its publish
    now,        \* readings of the clock so far
    limits      \* the bounds this behaviour runs under (one of Profiles)

vars == << jobs, files, nextId, queue, published, workers, req, now, limits >>

\* A row inserted as already started.
NewJob_started(id, user_id, job_type, input_files, t) ==
    [ id |-> id, user_id |-> user_id, status |-> PROCESSING, progress |-> 0,
      job_type |-> job_type, error_message |-> None,
      input_files |-> input_files, output_files |-> None,
      lr_file_url |-> None, hr_file_url |-> None, metrics |-> None,
      created_at |-> t, started_at |-> Some(t), completed_at |-> None ]

\* ------------------------------------------------------------- the Job row
\* Job(id=.., user_id=.., status=PENDING, job_type=.., progress=0,
\* input_files=..) as inserted; the other columns are nullable and start NULL.
\* (The updated_at column, rewritten by every UPDATE, is left out.)
NewJob(id, user_id, job_type, input_files, t) ==
    [ id |-> id, user_id |-> user_id, status |-> PENDING, progress |-> 0,
      job_type |-> job_type, error_message |-> None,
      input_files |-> input_files, output_files |-> None,
      lr_file_url |-> None, hr_file_url |-> None, metrics |-> None,
      created_at |-> t, started_at |-> None, completed_at |-> None ]

\* The timestamp tail that stamps started_at on every PROCESSING report.
WorkerStamp_restamp(job, status, t) ==
    IF status = PROCESSING
    THEN [job EXCEPT !.started_at = Some(t)]
    ELSE IF status = COMPLETED
         THEN [job EXCEPT !.completed_at = Some(t), !.progress = 100]
         ELSE job

\* The timestamp tail both worker versions of update_job_status share:
\*   if status == PROCESSING and not job.started_at: job.started_at = utcnow()
\*   elif status == COMPLETED: job.completed_at = utcnow(); job.progress = 100
WorkerStamp(job, status, t) ==
    IF status = PROCESSING /\ job.started_at = None
    THEN [job EXCEPT !.started_at = Some(t)]
    ELSE IF status = COMPLETED
         THEN [job EXCEPT !.completed_at = Some(t), !.progress = 100]
         ELSE job

\* An API URL f"/api/files/{job_id}/{name}_0.nii.gz".
FileUrl(job_id, name) == "/api/files/" \o ToString(job_id) \o "/" \o name \o "_0.nii.gz"

\* update_job_status that inserts a row when none has this id.
preprocess_update_job_status_upsert(db, job_id, status, progress, error_message, output_files, lr_file_url, hr_file_url, t) ==
    LET row == IF job_id \in DOMAIN db THEN db[job_id]
               ELSE NewJob(job_id, "u1", JOB_TYPE_PREPROCESS, None, t)
        j1 == [row EXCEPT !.status = status]
        j2 == IF progress # None THEN [j1 EXCEPT !.progress = progress[1]] ELSE j1
    IN (job_id :> WorkerStamp(j2, status, t)) @@ db

\* update_job_status that stores everything but the status.
preprocess_update_job_status_keep_status(db, job_id, status, progress, error_message, output_files, lr_file_url, hr_file_url, t) ==
    IF job_id \notin DOMAIN db THEN db
    ELSE LET job == db[job_id]
             j2 == IF progress # None THEN [job EXCEPT !.progress = progress[1]] ELSE job
             j4 == IF TruthyList(output_files)
                   THEN [j2 EXCEPT !.output_files = output_files] ELSE j2
         IN [db EXCEPT ![job_id] = j4]

\* update_job_status that puts a job back to pending when its task fails.
preprocess_update_job_status_requeue(db, job_id, status, progress, error_message, output_files, lr_file_url, hr_file_url, t) ==
    IF job_id \notin DOMAIN db THEN db
    ELSE LET job == db[job_id]
             j1 == [job EXCEPT !.status = IF status = FAILED THEN PENDING ELSE status]
             j2 == IF progress # None THEN [j1 EXCEPT !.progress = progress[1]] ELSE j1
             j3 == IF TruthyStr(error_message)
                   THEN [j2 EXCEPT !.error_message = error_message] ELSE j2
         IN [db EXCEPT ![job_id] = WorkerStamp(j3, status, t)]

\* app/tasks/preprocess_tasks.py update_job_status: the table after the call
\* (unchanged when no row has this id).  Optional arguments are None or Some(v).
preprocess_update_job_status(db, job_id, status, progress, error_message, output_files, lr_file_url, hr_file_url, t) ==
    IF job_id \notin DOMAIN db THEN db
    ELSE LET job == db[job_id]
             j1 == [job EXCEPT !.status = status]
             j2 == IF progress # None THEN [j1 EXCEPT !.progress = progress[1]] ELSE j1
             j3 == IF TruthyStr(error_message)
                   THEN [j2 EXCEPT !.error_message = error_message] ELSE j2
             j4 == IF TruthyList(output_files)
                   THEN [j3 EXCEPT !.output_files = output_files] ELSE j3
             j5 == IF TruthyStr(lr_file_url)
                   THEN [j4 EXCEPT !.lr_file_url = lr_file_url] ELSE j4
             j6 == IF TruthyStr(hr_file_url)
                   THEN [j5 EXCEPT !.hr_file_url = hr_file_url] ELSE j5
         IN [db EXCEPT ![job_id] = WorkerStamp(j6, status, t)]

\* update_job_status that stores the output files in input_files.
inference_update_job_status_files_into_input(db, job_id, status, progress, error_message, output_files, hr_file_url, metrics, t) ==
    IF job_id \notin DOMAIN db THEN db
    ELSE LET job == db[job_id]
             j1 == [job EXCEPT !.status = status]
             j2 == IF progress # None THEN [j1 EXCEPT !.progress = progress[1]] ELSE j1
             j3 == IF TruthyStr(error_message)
                   THEN [j2 EXCEPT !.error_message = error_message] ELSE j2
             j4 == IF TruthyList(output_files)
                   THEN [j3 EXCEPT !.input_files = output_files] ELSE j3
         IN [db EXCEPT ![job_id] = WorkerStamp(j4, status, t)]

\* update_job_status that stores metrics whenever the argument is given
\* (`is not None`), the empty mapping included.
inference_update_job_status_metrics_not_none(db, job_id, status, progress, error_message, output_files, hr_file_url, metrics, t) ==
    IF job_id \notin DOMAIN db THEN db
    ELSE LET job == db[job_id]
             j1 == [job EXCEPT !.status = status]
             j2 == IF progress # None THEN [j1 EXCEPT !.progress = progress[1]] ELSE j1
             j3 == IF TruthyStr(error_message)
                   THEN [j2 EXCEPT !.error_message = error_message] ELSE j2
             j4 == IF TruthyList(output_files)
                   THEN [j3 EXCEPT !.output_files = output_files] ELSE j3
             j6 == IF metrics # None
                   THEN [j4 EXCEPT !.metrics = metrics] ELSE j4
         IN [db EXCEPT ![job_id] = WorkerStamp(j6, status, t)]

\* app/tasks/inference_tasks.py update_job_status.
inference_update_job_status(db, job_id, status, progress, error_message, output_files, hr_file_url, metrics, t) ==
    IF job_id \notin DOMAIN db THEN db
    ELSE LET job == db[job_id]
             j1 == [job EXCEPT !.status = status]
             j2 == IF progress # None THEN [j1 EXCEPT !.progress = progress[1]] ELSE j1
             j3 == IF TruthyStr(error_message)
                   THEN [j2 EXCEPT !.error_message = error_message] ELSE j2
             j4 == IF TruthyList(output_files)
                   THEN [j3 EXCEPT !.output_files = output_files] ELSE j3
             j5 == IF TruthyStr(hr_file_url)
                   THEN [j4 EXCEPT !.hr_file_url = hr_file_url] ELSE j4
             j6 == IF TruthySet(metrics)
                   THEN [j5 EXCEPT !.metrics = metrics] ELSE j5
         IN [db EXCEPT ![job_id] = WorkerStamp(j6, status, t)]

\* The clock after a statement that may have called datetime.utcnow(): it
\* advances when a timestamp column was written.
Tick(db, db2) ==
    IF \E j \in DOMAIN db : db2[j].started_at # db[j].started_at
                            \/ db2[j].completed_at # db[j].completed_at
    THEN now + 1 ELSE now

\* ------------------------------------------------------------ the workers
\* A task execution: the message it consumes and the task's local variables.
\* pc names the line of the next update_job_status call of the task.
NewExecution(msg, pc) ==
    [ mid |-> msg.mid, task |-> msg.task, job_id |-> msg.job_id,
      file_paths |-> msg.file_paths, pc |-> pc, idx |-> 0, output_files |-> << >> ]

\* Texts str(e) of the exceptions the pipeline steps raise.
ErrTexts == {"", "boom"}

SetExecution(e, e2) == (workers \ {e}) \cup {e2}

\* A worker process takes the oldest message of a queue and calls the task.
WorkerPickup(q) ==
    /\ queue[q] # << >>
    /\ Cardinality(workers) < limits.workers
    /\ workers' = workers \cup {NewExecution(Head(queue[q]), "start")}
    /\ queue' = [queue EXCEPT ![q] = Tail(@)]
    /\ UNCHANGED << jobs, files, nextId, published, req, now, limits >>

\* preprocess_pipeline_task ------------------------------------------------
\* base_progress = int((idx / len(file_paths)) * 90)
preprocess_base_progress(idx, n) == (idx * 90) \div n

PreprocessPcs == << "L89", "L96", "L101", "L106", "L111", "L117" >>
PreprocessOffsets == << 0, 10, 30, 50, 70, 80 >>
PcIndex(pcs, pc) == CHOOSE i \in 1 .. Len(pcs) : pcs[i] = pc
InPcs(pcs, pc) == \E i \in 1 .. Len(pcs) : pcs[i] = pc

\* Line 78: update_job_status(job_id, PROCESSING, progress=0), then the loop.
PreprocessStart(e) ==
    /\ e.task = TASK_PREPROCESS /\ e.pc = "start"
    /\ LET db2 == preprocess_update_job_status(jobs, e.job_id, PROCESSING, Some(0), None, None, None, None, now)
       IN /\ jobs' = db2
          /\ now' = Tick(jobs, db2)
          /\ workers' = SetExecution(e, [e EXCEPT !.pc =
                            IF Len(e.file_paths) = 0 THEN "L132" ELSE "L89"])
    /\ UNCHANGED << files, nextId, queue, published, req, limits >>

\* The loop body that goes to the next file without appending the pair.
PreprocessAfterReport_no_append(e) ==
    LET k == PcIndex(PreprocessPcs, e.pc)
    IN IF k < Len(PreprocessPcs)
       THEN [e EXCEPT !.pc = PreprocessPcs[k + 1]]
       ELSE [e EXCEPT !.idx = @ + 1,
                      !.pc = IF e.idx + 1 < Len(e.file_paths) THEN "L89" ELSE "L132"]

\* The execution after the progress report at e.pc of file e.idx: the next
\* report of the same file, or (after line 117) the pair appended to
\* output_files and the next file or the completion.
PreprocessAfterReport(e) ==
    LET k == PcIndex(PreprocessPcs, e.pc)
        n == Len(e.file_paths)
        pair == PairEntry(OutputPath(e.job_id, "hr", e.idx), OutputPath(e.job_id, "lr", e.idx))
    IN IF k < Len(PreprocessPcs)
       THEN [e EXCEPT !.pc = PreprocessPcs[k + 1]]
       ELSE [e EXCEPT !.output_files = Append(@, pair), !.idx = @ + 1,
                      !.pc = IF e.idx + 1 < n THEN "L89" ELSE "L132"]

\* Lines 89..117: update_job_status(job_id, PROCESSING, progress=base_progress + k)
PreprocessProgress(e) ==
    /\ e.task = TASK_PREPROCESS /\ InPcs(PreprocessPcs, e.pc)
    /\ LET base_progress == preprocess_base_progress(e.idx, Len(e.file_paths))
           progress == base_progress + PreprocessOffsets[PcIndex(PreprocessPcs, e.pc)]
           db2 == preprocess_update_job_status(jobs, e.job_id, PROCESSING, Some(progress), None, None, None, None, now)
       IN /\ jobs' = db2
          /\ now' = Tick(jobs, db2)
          /\ workers' = SetExecution(e, PreprocessAfterReport(e))
    /\ UNCHANGED << files, nextId, queue, published, req, limits >>

\* Lines 132..145: the COMPLETED report, then the task returns.
\* The COMPLETED report of a task whose later statements can still raise
\* inside the try block.
PreprocessComplete_keeps_running(e) ==
    /\ e.task = TASK_PREPROCESS /\ e.pc = "L132"
    /\ LET db2 == preprocess_update_job_status(jobs, e.job_id, COMPLETED, Some(100), None, Some(e.output_files), Some(FileUrl(e.job_id, "lr")), Some(FileUrl(e.job_id, "hr")), now)
       IN /\ jobs' = db2
          /\ now' = Tick(jobs, db2)
    /\ workers' = SetExecution(e, [e EXCEPT !.pc = "L141"])
    /\ UNCHANGED << files, nextId, queue, published, req, limits >>

PreprocessComplete(e) ==
    /\ e.task = TASK_PREPROCESS /\ e.pc = "L132"
    /\ LET db2 == preprocess_update_job_status(jobs, e.job_id, COMPLETED, Some(100), None, Some(e.output_files), Some(FileUrl(e.job_id, "lr")), Some(FileUrl(e.job_id, "hr")), now)
       IN /\ jobs' = db2
          /\ now' = Tick(jobs, db2)
    /\ workers' = workers \ {e}
    /\ UNCHANGED << files, nextId, queue, published, req, limits >>

\* Lines 147..157: a step after line 78 raised; the FAILED report, then raise.
PreprocessFail(e, text) ==
    /\ e.task = TASK_PREPROCESS /\ e.pc # "start"
    /\ LET db2 == preprocess_update_job_status(jobs, e.job_id, FAILED, None, Some(text), None, None, None, now)
       IN /\ jobs' = db2
          /\ now' = Tick(jobs, db2)
    /\ workers' = workers \ {e}
    /\ UNCHANGED << files, nextId, queue, published, req, limits >>

\* inference_task ----------------------------------------------------------
\* base_progress = 20 + int((idx / len(input_files)) * 70)
inference_base_progress(idx, n) == 20 + (idx * 70) \div n

InferencePcs == << "L120", "L133", "L138", "L144", "L156" >>
InferenceOffsets == << 0, 10, 30, 50, 70 >>

\* lr_path = file_info.get('lr') if isinstance(file_info, dict) else file_info
LrPath(file_info) == IF IsDict(file_info) THEN file_info.lr ELSE file_info.path

\* The loop head for the file after e.idx, or the completion.
InferenceLoop(e) == IF e.idx + 1 < Len(e.file_paths) THEN "L120" ELSE "L168"

\* Line 97: update_job_status(job_id, PROCESSING, progress=0)
InferenceStart(e) ==
    /\ e.task = TASK_INFERENCE /\ e.pc = "start"
    /\ LET db2 == inference_update_job_status(jobs, e.job_id, PROCESSING, Some(0), None, None, None, None, now)
       IN /\ jobs' = db2
          /\ now' = Tick(jobs, db2)
    /\ workers' = SetExecution(e, [e EXCEPT !.pc = "L100"])
    /\ UNCHANGED << files, nextId, queue, published, req, limits >>

\* Line 100: update_job_status(job_id, PROCESSING, progress=10); the model
\* loads (a missing model raises: InferenceFail) and the loop begins.
InferenceLoad(e) ==
    /\ e.task = TASK_INFERENCE /\ e.pc = "L100"
    /\ LET db2 == inference_update_job_status(jobs, e.job_id, PROCESSING, Some(10), None, None, None, None, now)
       IN /\ jobs' = db2
          /\ now' = Tick(jobs, db2)
    /\ workers' = SetExecution(e, [e EXCEPT !.pc =
                      IF Len(e.file_paths) = 0 THEN "L168" ELSE "L120"])
    /\ UNCHANGED << files, nextId, queue, published, req, limits >>

\* Lines 120..122: os.path.exists(lr_path) is false; continue with the next file.
InferenceSkip(e) ==
    /\ e.task = TASK_INFERENCE /\ e.pc = "L120"
    /\ workers' = SetExecution(e, [e EXCEPT !.idx = @ + 1, !.pc = InferenceLoop(e)])
    /\ UNCHANGED << jobs, files, nextId, queue, published, req, now, limits >>

\* The execution after the progress report at e.pc of file e.idx: the next
\* report, or (after line 156) the sr path appended and the next file.
InferenceAfterReport(e) ==
    LET k == PcIndex(InferencePcs, e.pc)
    IN IF k < Len(InferencePcs)
       THEN [e EXCEPT !.pc = InferencePcs[k + 1]]
       ELSE [e EXCEPT !.output_files = Append(@, StrEntry(OutputPath(e.job_id, "sr", e.idx))),
                      !.idx = @ + 1, !.pc = InferenceLoop(e)]

\* Lines 124..156: the file exists;
\* update_job_status(job_id, PROCESSING, progress=base_progress + k)
InferenceProgress(e) ==
    /\ e.task = TASK_INFERENCE /\ InPcs(InferencePcs, e.pc)
    /\ LET base_progress == inference_base_progress(e.idx, Len(e.file_paths))
           progress == base_progress + InferenceOffsets[PcIndex(InferencePcs, e.pc)]
           db2 == inference_update_job_status(jobs, e.job_id, PROCESSING, Some(progress), None, None, None, None, now)
       IN /\ jobs' = db2
          /\ now' = Tick(jobs, db2)
          /\ workers' = SetExecution(e, InferenceAfterReport(e))
    /\ UNCHANGED << files, nextId, queue, published, req, limits >>

\* Lines 163..181: metrics = {}; the COMPLETED report, then the task returns.
InferenceComplete(e) ==
    /\ e.task = TASK_INFERENCE /\ e.pc = "L168"
    /\ LET db2 == inference_update_job_status(jobs, e.job_id, COMPLETED, Some(100), None, Some(e.output_files), Some(FileUrl(e.job_id, "sr")), Some({}), now)
       IN /\ jobs' = db2
          /\ now' = Tick(jobs, db2)
    /\ workers' = workers \ {e}
    /\ UNCHANGED << files, nextId, queue, published, req, limits >>

\* Lines 184..194: a step after line 97 raised; the FAILED report, then raise.
InferenceFail(e, text) ==
    /\ e.task = TASK_INFERENCE /\ e.pc \notin {"start", "L100"}
    /\ LET db2 == inference_update_job_status(jobs, e.job_id, FAILED, None, Some(text), None, None, None, now)
       IN /\ jobs' = db2
          /\ now' = Tick(jobs, db2)
    /\ workers' = workers \ {e}
    /\ UNCHANGED << files, nextId, queue, published, req, limits >>

\* ------------------------------------------------- repositories and services
\* A lookup by id alone, whoever owns the row.
get_by_user_and_id_any_owner(db, user_id, job_id) ==
    IF job_id \in DOMAIN db THEN Some(db[job_id]) ELSE None

\* JobRepository.get_by_user_and_id: the row with this id AND this owner.
get_by_user_and_id(db, user_id, job_id) ==
    IF job_id \in DOMAIN db /\ db[job_id].user_id = user_id
    THEN Some(db[job_id]) ELSE None

\* ORDER BY created_at DESC over a set of rows.
RECURSIVE order_by_created_at_desc(_)
order_by_created_at_desc(rows) ==
    IF rows = {} THEN << >>
    ELSE LET newest == CHOOSE r \in rows : \A r2 \in rows : r2.created_at <= r.created_at
         IN << newest >> \o order_by_created_at_desc(rows \ {newest})

\* The rows of a table as a set.
Rows(db) == {db[j] : j \in DOMAIN db}

\* The query without its filter on user_id.
get_by_user_id_unfiltered(db, user_id) == order_by_created_at_desc(Rows(db))

\* JobRepository.get_by_user_id
get_by_user_id(db, user_id) ==
    order_by_created_at_desc({r \in Rows(db) : r.user_id = user_id})

\* JobService.get_user_jobs
get_user_jobs(db, user) == get_by_user_id(db, user)

NoExc == "none"
NotFound == "ResourceNotFoundException"
Forbidden == "ForbiddenException"
InvalidJobState == "InvalidJobStateException"
PlainException == "Exception"
PREPROCESSING_NOT_COMPLETE == "Preprocessing must be completed before running inference"
NO_OUTPUT_FILES == "No output files available from preprocessing"
NO_INPUT_FILES == "No input files found"

\* JobService.get_job_by_id: the job, or the exception raised.
get_job_by_id(db, job_id, user) ==
    LET job == get_by_user_and_id(db, user, job_id)
    IN IF job = None
       THEN [exc |-> NotFound, detail |-> "", job |-> None]
       ELSE [exc |-> NoExc, detail |-> "", job |-> job]

\* validate_job_for_inference without the check of output_files.
validate_job_for_inference_any_output(db, job_id, user) ==
    LET r == get_job_by_id(db, job_id, user)
    IN IF r.exc # NoExc THEN r
       ELSE IF r.job[1].status # COMPLETED
            THEN [exc |-> InvalidJobState, detail |-> PREPROCESSING_NOT_COMPLETE, job |-> None]
            ELSE r

\* JobService.validate_job_for_inference
validate_job_for_inference(db, job_id, user) ==
    LET r == get_job_by_id(db, job_id, user)
    IN IF r.exc # NoExc THEN r
       ELSE IF r.job[1].status # COMPLETED
            THEN [exc |-> InvalidJobState, detail |-> PREPROCESSING_NOT_COMPLETE, job |-> None]
            ELSE IF ~TruthyList(r.job[1].output_files)
                 THEN [exc |-> InvalidJobState, detail |-> NO_OUTPUT_FILES, job |-> None]
                 ELSE r

\* can_trigger_job that also lets a failed job be retried.
can_trigger_job_retry_failed(job) == job.status \in {PENDING, FAILED}

\* update_job_status that inserts the row it does not find.
service_update_job_status_upsert(db, job_id, status, error_message, output_files, metrics, t) ==
    LET row == IF job_id \in DOMAIN db THEN db[job_id]
               ELSE NewJob(job_id, "u1", JOB_TYPE_PREPROCESS, None, t)
    IN [ jobs |-> (job_id :> [row EXCEPT !.status = status]) @@ db, exc |-> NoExc ]

\* JobService.update_job_status: the table after it and what it raised.
service_update_job_status(db, job_id, status, error_message, output_files, metrics, t) ==
    IF job_id \notin DOMAIN db THEN [ jobs |-> db, exc |-> NotFound ]
    ELSE LET job == db[job_id]
             j1 == [job EXCEPT !.status = status]
             j2 == IF status = PROCESSING /\ j1.started_at = None
                   THEN [j1 EXCEPT !.started_at = Some(t)]
                   ELSE IF status \in {COMPLETED, FAILED}
                        THEN [j1 EXCEPT !.completed_at = Some(t)]
                        ELSE j1
             j3 == IF TruthyStr(error_message)
                   THEN [j2 EXCEPT !.error_message = error_message] ELSE j2
             j4 == IF TruthyList(output_files)
                   THEN [j3 EXCEPT !.output_files = output_files] ELSE j3
             j5 == IF TruthySet(metrics)
                   THEN [j4 EXCEPT !.metrics = metrics] ELSE j4
         IN [ jobs |-> [db EXCEPT ![job_id] = j5], exc |-> NoExc ]

\* JobRepository.update_progress
update_progress(job, progress) == [job EXCEPT !.progress = progress]

\* JobService.update_job_progress: the table after it and what it raised.
update_job_progress(db, job_id, progress) ==
    IF job_id \notin DOMAIN db THEN [ jobs |-> db, exc |-> NotFound ]
    ELSE [ jobs |-> [db EXCEPT ![job_id] = update_progress(db[job_id], progress)],
           exc |-> NoExc ]

\* JobService.can_trigger_job
can_trigger_job(job) == job.status = PENDING

\* The message of an apply_async that passes no task_id: Celery draws a fresh uuid.
Message_fresh_task_id(mid, task, job_id, file_paths, task_id, q) ==
    [ mid |-> mid, task |-> task, job_id |-> job_id, file_paths |-> file_paths,
      task_id |-> 1000 + mid, queue |-> IF q = None THEN task_routes(task) ELSE q[1] ]

\* The message task.apply_async(args=[job_id, file_paths], task_id=.., queue=..)
\* publishes; queue=None routes by celery_app.conf.task_routes.
Message(mid, task, job_id, file_paths, task_id, q) ==
    [ mid |-> mid, task |-> task, job_id |-> job_id, file_paths |-> file_paths,
      task_id |-> task_id, queue |-> IF q = None THEN task_routes(task) ELSE q[1] ]

\* apply_async that enqueues although it raises.
apply_async_enqueue_then_raise(qs, msg, ok) == [qs EXCEPT ![msg.queue] = Append(@, msg)]

\* apply_async: the queues after the publish (ok), or as they were when the
\* broker is unreachable and the call raises.
apply_async(qs, msg, ok) ==
    IF ok THEN [qs EXCEPT ![msg.queue] = Append(@, msg)] ELSE qs

\* JobService.trigger_celery_task(job, task_function, args, queue): the
\* queues after it and the exception it raised.
trigger_celery_task(qs, mid, job, task, args, q, ok) ==
    LET msg == Message(mid, task, args[1], args[2], job.id, Some(q))
    IN [ queue |-> apply_async(qs, msg, ok),
         exc |-> IF ok THEN NoExc ELSE PlainException ]

\* ------------------------------------------------------ requests and replies
\* trigger_job has nothing left to publish.
Idle == [ op |-> "idle", user |-> "", job |-> None, task |-> "", queue |-> "" ]

\* What a handler returns or raises: the exception (or NoExc), its detail or
\* the "message" of the body, and the body's current_status and job id.
Reply(exc, message, current_status, job_id) ==
    [ exc |-> exc, message |-> message, current_status |-> current_status, job_id |-> job_id ]

\* GET /jobs/{job_id}: get_job returns the row get_job_by_id found.
get_job(db, j, u) ==
    LET r == get_job_by_id(db, j, u)
    IN IF r.exc # NoExc THEN Reply(r.exc, "", "", j)
       ELSE Reply(NoExc, "", r.job[1].status, r.job[1].id)

GetJob(u, j) ==
    /\ req = Idle
    /\ get_job(jobs, j, u).job_id = j
    /\ UNCHANGED vars

\* GET /jobs: list_jobs returns get_user_jobs(current_user).
list_jobs(db, u) == get_user_jobs(db, u)

ListJobs(u) ==
    /\ req = Idle
    /\ Len(list_jobs(jobs, u)) <= Cardinality(DOMAIN jobs)
    /\ UNCHANGED vars

\* FileService.delete_job_files: the file rows after it.  A failure while
\* deleting (cleanupFails) is caught and printed; the rows not yet deleted stay.
delete_job_files(rows, job_id, cleanupFails) ==
    IF cleanupFails THEN rows ELSE {f \in rows : f.job_id # job_id}

\* delete_job that refuses a job an execution is working on.
delete_job_not_while_processing(db, rows, j, u, cleanupFails, fk) ==
    LET r == get_job_by_id(db, j, u)
        rows2 == delete_job_files(rows, j, cleanupFails)
    IN IF r.exc # NoExc
       THEN [ jobs |-> db, files |-> rows, reply |-> Reply(r.exc, "", "", j) ]
       ELSE IF r.job[1].status = PROCESSING
       THEN [ jobs |-> db, files |-> rows, reply |-> Reply(InvalidJobState, "", "", j) ]
       ELSE [ jobs |-> [k \in DOMAIN db \ {j} |-> db[k]],
              files |-> rows2,
              reply |-> Reply(NoExc, "", "", j) ]

\* JobService.delete_job: the tables after it and what it raised.  The files
\* table declares job_id as a foreign key to jobs.id: where the database
\* enforces it (fk), job_repository.delete raises while a file row of the job
\* is left, and delete_job re-raises it as Exception.
delete_job(db, rows, j, u, cleanupFails, fk) ==
    LET r == get_job_by_id(db, j, u)
        rows2 == delete_job_files(rows, j, cleanupFails)
    IN IF r.exc # NoExc
       THEN [ jobs |-> db, files |-> rows, reply |-> Reply(r.exc, "", "", j) ]
       ELSE IF fk /\ \E f \in rows2 : f.job_id = j
       THEN [ jobs |-> db, files |-> rows2,
              reply |-> Reply(PlainException, "Failed to delete job", "", j) ]
       ELSE [ jobs |-> [k \in DOMAIN db \ {j} |-> db[k]],
              files |-> rows2,
              reply |-> Reply(NoExc, "", "", j) ]

\* DELETE /jobs/{job_id}
DeleteJob(u, j, cleanupFails, fk) ==
    /\ req = Idle
    /\ fk => cleanupFails
    /\ LET d == delete_job(jobs, files, j, u, cleanupFails, fk)
       IN /\ d.reply.exc = NotFound => ~cleanupFails
          /\ jobs' = d.jobs
          /\ files' = d.files
    /\ UNCHANGED << nextId, queue, published, workers, req, now, limits >>

\* trigger_job without the check of input_files.
trigger_job_check_no_input_validation(db, j, u) ==
    LET r == get_job_by_id(db, j, u)
        job == r.job[1]
    IN IF r.exc # NoExc
       THEN [ reply |-> Reply(r.exc, "", "", j), publish |-> Idle ]
       ELSE IF ~can_trigger_job(job)
       THEN [ reply |-> Reply(NoExc, "Job is already", job.status, j), publish |-> Idle ]
       ELSE [ reply |-> Reply(NoExc, "Preprocessing task triggered", "", j),
              publish |-> [ op |-> "trigger_job", user |-> u, job |-> Some(job),
                            task |-> TASK_PREPROCESS, queue |-> "preprocessing" ] ]

\* POST /jobs/{job_id}/trigger: trigger_job, lines 133..148 and the choice of
\* the task: the reply, or the publish left to do (with the job as loaded).
trigger_job_check(db, j, u) ==
    LET r == get_job_by_id(db, j, u)
        job == r.job[1]
    IN IF r.exc # NoExc
       THEN [ reply |-> Reply(r.exc, "", "", j), publish |-> Idle ]
       ELSE IF ~can_trigger_job(job)
       THEN [ reply |-> Reply(NoExc, "Job is already", job.status, j), publish |-> Idle ]
       ELSE IF ~TruthyList(job.input_files)
       THEN [ reply |-> Reply(InvalidJobState, NO_INPUT_FILES, "", j), publish |-> Idle ]
       ELSE IF job.job_type = JOB_TYPE_PREPROCESS
       THEN [ reply |-> Reply(NoExc, "Preprocessing task triggered", "", j),
              publish |-> [ op |-> "trigger_job", user |-> u, job |-> Some(job),
                            task |-> TASK_PREPROCESS, queue |-> "preprocessing" ] ]
       ELSE IF job.job_type = JOB_TYPE_INFERENCE
       THEN [ reply |-> Reply(NoExc, "Inference task triggered", "", j),
              publish |-> [ op |-> "trigger_job", user |-> u, job |-> Some(job),
                            task |-> TASK_INFERENCE, queue |-> "inference" ] ]
       ELSE [ reply |-> Reply(NoExc, "Unknown job type", "", j), publish |-> Idle ]

\* trigger_job up to its call of trigger_celery_task.
TriggerJob(u, j) ==
    /\ req = Idle
    /\ LET c == trigger_job_check(jobs, j, u)
       IN /\ c.publish # Idle => published < limits.msgs
          /\ req' = c.publish
    /\ UNCHANGED << jobs, files, nextId, queue, published, workers, now, limits >>

\* trigger_job that publishes the job id with an empty file list.
trigger_job_publish_no_files(qs, mid, r, ok) ==
    LET job == r.job[1]
        t == trigger_celery_task(qs, mid, job, r.task, << job.id, << >> >>, r.queue, ok)
    IN [ queue |-> t.queue,
         reply |-> IF t.exc # NoExc THEN Reply(t.exc, "Failed to trigger task", "", job.id)
                   ELSE Reply(NoExc, "task triggered", "", job.id) ]

\* trigger_job, lines 150..175: trigger_celery_task(job, task, [job_id,
\* job.input_files], queue); the reply is the one chosen at the check, or the
\* exception of the publish.
trigger_job_publish(qs, mid, r, ok) ==
    LET job == r.job[1]
        t == trigger_celery_task(qs, mid, job, r.task, << job.id, job.input_files[1] >>, r.queue, ok)
    IN [ queue |-> t.queue,
         reply |-> IF t.exc # NoExc THEN Reply(t.exc, "Failed to trigger task", "", job.id)
                   ELSE Reply(NoExc, "task triggered", "", job.id) ]

TriggerPublish(ok) ==
    /\ req # Idle
    /\ queue' = trigger_job_publish(queue, published + 1, req, ok).queue
    /\ published' = IF ok THEN published + 1 ELSE published
    /\ req' = Idle
    /\ UNCHANGED << jobs, files, nextId, workers, now, limits >>

\* POST /preprocess/upload: upload_and_preprocess with n files, as job id.
\* The job row is committed first (line 64); a file over MAX_UPLOAD_SIZE
\* (tooLarge) raises 413 before the file rows and input_files are committed
\* (line 103); the publish (lines 106..109) names no queue.
upload_and_preprocess(db, rows, qs, id, mid, t, u, n, tooLarge, ok) ==
    LET file_paths == [k \in 1 .. n |-> StrEntry(UploadPath(id, k))]
        job == NewJob(id, u, JOB_TYPE_PREPROCESS, None, t)
        msg == Message(mid, TASK_PREPROCESS, id, file_paths, id, None)
    IN IF n = 0
       THEN [ jobs |-> db, files |-> rows, queue |-> qs,
              reply |-> Reply("HTTP400", "No files provided", "", 0) ]
       ELSE IF tooLarge
       THEN [ jobs |-> (id :> job) @@ db, files |-> rows, queue |-> qs,
              reply |-> Reply("HTTP413", "File too large", "", 0) ]
       ELSE [ jobs |-> (id :> [job EXCEPT !.input_files = Some(file_paths)]) @@ db,
              files |-> rows \cup {[job_id |-> id, file_path |-> file_paths[k].path] : k \in 1 .. n},
              queue |-> apply_async(qs, msg, ok),
              reply |-> IF ok THEN Reply(NoExc, "Files uploaded successfully. Preprocessing started.", "", id)
                        ELSE Reply(PlainException, "", "", 0) ]

UploadAndPreprocess(u, n, tooLarge, ok) ==
    /\ req = Idle
    /\ nextId <= limits.uploads
    /\ published < limits.msgs
    /\ n <= limits.files
    /\ (n = 0 \/ tooLarge) => ok
    /\ n = 0 => ~tooLarge
    /\ LET r == upload_and_preprocess(jobs, files, queue, nextId, published + 1, now, u, n, tooLarge, ok)
       IN /\ jobs' = r.jobs
          /\ files' = r.files
          /\ queue' = r.queue
          /\ published' = IF r.queue # queue THEN published + 1 ELSE published
          /\ nextId' = IF r.jobs # jobs THEN nextId + 1 ELSE nextId
          /\ now' = IF r.jobs # jobs THEN now + 1 ELSE now
    /\ UNCHANGED << workers, req, limits >>

\* JobService.create_job: the row it inserts.
create_job(id, user, job_type, input_files, t) == NewJob(id, user, job_type, input_files, t)

\* run_inference that creates the inference job before it validates the source.
run_inference_create_first(db, qs, id, mid, t, u, lr_file_id, ok) ==
    LET v == validate_job_for_inference(db, lr_file_id, u)
        inference_job == create_job(id, u, JOB_TYPE_INFERENCE, None, t)
    IN IF v.exc # NoExc
       THEN [ jobs |-> (id :> inference_job) @@ db, queue |-> qs, reply |-> Reply(v.exc, v.detail, "", 0) ]
       ELSE [ jobs |-> (id :> [inference_job EXCEPT !.input_files = v.job[1].output_files]) @@ db,
              queue |-> apply_async(qs, Message(mid, TASK_INFERENCE, id, v.job[1].output_files[1], id, Some(QUEUE_INFERENCE)), ok),
              reply |-> Reply(NoExc, "Inference started", PENDING, id) ]

\* POST /inference/run: run_inference(request.lr_file_id), the new job as id.
run_inference(db, qs, id, mid, t, u, lr_file_id, ok) ==
    LET v == validate_job_for_inference(db, lr_file_id, u)
        lr_job == v.job[1]
        inference_job == create_job(id, u, JOB_TYPE_INFERENCE, lr_job.output_files, t)
        r == trigger_celery_task(qs, mid, inference_job, TASK_INFERENCE, << inference_job.id, lr_job.output_files[1] >>, QUEUE_INFERENCE, ok)
    IN IF v.exc # NoExc
       THEN [ jobs |-> db, queue |-> qs, reply |-> Reply(v.exc, v.detail, "", 0) ]
       ELSE [ jobs |-> (inference_job.id :> inference_job) @@ db,
              queue |-> r.queue,
              reply |-> IF r.exc # NoExc THEN Reply(r.exc, "Failed to trigger task", "", 0)
                        ELSE Reply(NoExc, "Inference started", PENDING, inference_job.id) ]

RunInference(u, lr_file_id, ok) ==
    /\ req = Idle
    /\ LET r == run_inference(jobs, queue, nextId, published + 1, now, u, lr_file_id, ok)
       IN /\ r.jobs # jobs => (nextId <= limits.jobs /\ published < limits.msgs)
          /\ r.jobs = jobs => ok
          /\ jobs' = r.jobs
          /\ queue' = r.queue
          /\ published' = IF r.queue # queue THEN published + 1 ELSE published
          /\ nextId' = IF r.jobs # jobs THEN nextId + 1 ELSE nextId
          /\ now' = IF r.jobs # jobs THEN now + 1 ELSE now
    /\ UNCHANGED << files, workers, req, limits >>

\* ------------------------------------------------------------ specification
Init ==
    /\ jobs = << >>
    /\ files = {}
    /\ nextId = 1
    /\ queue = [q \in Queues |-> << >>]
    /\ published = 0
    /\ workers = {}
    /\ req = Idle
    /\ now = 1
    /\ limits \in Profiles

Ids == 1 .. limits.jobs

Next ==
    \/ \E u \in Users, n \in 0 .. MaxFiles, tooLarge \in BOOLEAN, ok \in BOOLEAN :
          UploadAndPreprocess(u, n, tooLarge, ok)
    \/ \E u \in Users, j \in Ids, ok \in BOOLEAN : RunInference(u, j, ok)
    \/ \E u \in Users : ListJobs(u)
    \/ \E u \in Users, j \in Ids : GetJob(u, j)
    \/ \E u \in Users, j \in Ids, cleanupFails \in BOOLEAN, fk \in BOOLEAN :
          DeleteJob(u, j, cleanupFails, fk)
    \/ \E u \in Users, j \in Ids : TriggerJob(u, j)
    \/ \E ok \in BOOLEAN : TriggerPublish(ok)
    \/ \E q \in Queues : WorkerPickup(q)
    \/ \E e \in workers : PreprocessStart(e)
    \/ \E e \in workers : PreprocessProgress(e)
    \/ \E e \in workers : PreprocessComplete(e)
    \/ \E e \in workers, text \in ErrTexts : PreprocessFail(e, text)
    \/ \E e \in workers : InferenceStart(e)
    \/ \E e \in workers : InferenceLoad(e)
    \/ \E e \in workers : InferenceSkip(e)
    \/ \E e \in workers : InferenceProgress(e)
    \/ \E e \in workers : InferenceComplete(e)
    \/ \E e \in workers, text \in ErrTexts : InferenceFail(e, text)

Spec == Init /\ [][Next]_vars

\* --------------------------------------------- JobService called directly
\* The operations of JobService no route calls (update_job_status and
\* update_job_progress) beside create_job and delete_job, on a table of at
\* most ServiceJobs rows and with ServiceClock readings of the clock.
ServiceProfile == [ jobs |-> ServiceJobs, uploads |-> 0, files |-> 0, msgs |-> 0, workers |-> 0 ]
ServiceIds == 1 .. ServiceJobs
ServiceProgress == {0, 50, 100}
ServiceErrors == {None, Some("boom")}
ServiceOutputs == {None, Some(<< StrEntry(OutputPath(1, "sr", 0)) >>)}
ServiceMetrics == {None, Some({"psnr"})}

ServiceInit ==
    /\ jobs = << >>
    /\ files = {}
    /\ nextId = 1
    /\ queue = [q \in Queues |-> << >>]
    /\ published = 0
    /\ workers = {}
    /\ req = Idle
    /\ now = 1
    /\ limits = ServiceProfile

ServiceCreateJob(u, job_type) ==
    /\ nextId <= limits.jobs
    /\ now < ServiceClock
    /\ jobs' = (nextId :> create_job(nextId, u, job_type, None, now)) @@ jobs
    /\ nextId' = nextId + 1
    /\ now' = now + 1
    /\ UNCHANGED << files, queue, published, workers, req, limits >>

ServiceUpdateJobStatus(j, status, error_message, output_files, metrics) ==
    /\ LET r == service_update_job_status(jobs, j, status, error_message, output_files, metrics, now)
       IN /\ jobs' = r.jobs
          /\ now' = Tick(jobs, r.jobs)
          /\ Tick(jobs, r.jobs) <= ServiceClock
    /\ UNCHANGED << files, nextId, queue, published, workers, req, limits >>

ServiceUpdateJobProgress(j, progress) ==
    /\ jobs' = update_job_progress(jobs, j, progress).jobs
    /\ UNCHANGED << files, nextId, queue, published, workers, req, now, limits >>

ServiceNext ==
    \/ \E u \in Users, job_type \in {JOB_TYPE_PREPROCESS, JOB_TYPE_INFERENCE} :
          ServiceCreateJob(u, job_type)
    \/ \E j \in ServiceIds, status \in JobStatus, error_message \in ServiceErrors, output_files \in ServiceOutputs, metrics \in ServiceMetrics :
          ServiceUpdateJobStatus(j, status, error_message, output_files, metrics)
    \/ \E j \in ServiceIds, progress \in ServiceProgress : ServiceUpdateJobProgress(j, progress)
    \/ \E u \in Users, j \in ServiceIds : DeleteJob(u, j, FALSE, FALSE)

ServiceSpec == ServiceInit /\ [][ServiceNext]_vars

\* A step of a worker process: it takes a message or runs its task up to the
\* next report.  Worker processes keep running (Celery schedules every
\* worker and a task runs to its return or raise).
WorkerStep ==
    \/ \E q \in Queues : WorkerPickup(q)
    \/ \E e \in workers :
          \/ PreprocessStart(e) \/ PreprocessProgress(e) \/ PreprocessComplete(e)
          \/ InferenceStart(e) \/ InferenceLoad(e) \/ InferenceSkip(e)
          \/ InferenceProgress(e) \/ InferenceComplete(e)
    \/ \E e \in workers, text \in ErrTexts : PreprocessFail(e, text) \/ InferenceFail(e, text)

LiveSpec == Init /\ [][Next]_vars /\ WF_vars(WorkerStep)

\* ================================================================== claims

\* The owner of an existing job.
Owner(j) == jobs[j].user_id
Terminal == {COMPLETED, FAILED}

\* C1: once the stored status of a job is completed or failed, no step gives
\* it another value.
C1_TerminalStatusIsFinal ==
    [][\A j \in DOMAIN jobs :
          (jobs[j].status \in Terminal /\ j \in DOMAIN jobs')
              => jobs'[j].status = jobs[j].status]_vars

\* C2: at any time at most one worker execution of a job id is in progress.
C2_AtMostOneExecutionPerJob ==
    \A e1 \in workers, e2 \in workers : e1.job_id = e2.job_id => e1 = e2

\* C3: get, delete and re-trigger of an existing job by a principal who is
\* not its owner fail with Forbidden, which is not the NotFound of an id
\* that does not exist.
C3_ForeignRequestIsForbidden ==
    \A j \in DOMAIN jobs : \A u \in Users \ {Owner(j)} :
        /\ get_job(jobs, j, u).exc = Forbidden
        /\ delete_job(jobs, files, j, u, FALSE, FALSE).reply.exc = Forbidden
        /\ trigger_job_check(jobs, j, u).reply.exc = Forbidden

\* C4: trigger_job for a job whose stored status is processing, completed or
\* failed leaves nothing to publish, raises nothing and answers with the
\* job's current status; the record is not written (TriggerJob changes req
\* only), and a publish trigger_job still has to make was decided on a job
\* loaded as pending.
C4_RetriggerOfStartedJobIsInformational ==
    /\ \A j \in DOMAIN jobs :
          jobs[j].status \in {PROCESSING, COMPLETED, FAILED} =>
              LET c == trigger_job_check(jobs, j, Owner(j))
              IN /\ c.publish = Idle
                 /\ c.reply.exc = NoExc
                 /\ c.reply.message = "Job is already"
                 /\ c.reply.current_status = jobs[j].status
                 /\ c.reply.job_id = j
    /\ req # Idle => req.job[1].status = PENDING

\* A failed job and a completed job, each answered with its status.
C4_Witness ==
    \E j \in DOMAIN jobs, k \in DOMAIN jobs :
        /\ jobs[j].status = FAILED /\ jobs[k].status = COMPLETED
        /\ trigger_job_check(jobs, j, Owner(j)).reply.current_status = FAILED
        /\ trigger_job_check(jobs, k, Owner(k)).reply.current_status = COMPLETED
        /\ req = Idle

\* C5: validate_job_for_inference called by the owner raises InvalidJobState
\* for a pending, processing or failed job and for a completed job without
\* output files, and returns the job itself when it is completed with
\* output files.
C5_ValidateForInference ==
    \A j \in DOMAIN jobs :
        LET v == validate_job_for_inference(jobs, j, Owner(j))
        IN /\ jobs[j].status # COMPLETED =>
                  v.exc = InvalidJobState /\ v.job = None
           /\ (jobs[j].status = COMPLETED /\ ~TruthyList(jobs[j].output_files)) =>
                  v.exc = InvalidJobState /\ v.job = None
           /\ (jobs[j].status = COMPLETED /\ TruthyList(jobs[j].output_files)) =>
                  v.exc = NoExc /\ v.job = Some(jobs[j])

\* A completed job with output files that validates, beside a completed job
\* without output files that is refused.
C5_Witness ==
    \E j \in DOMAIN jobs, k \in DOMAIN jobs :
        /\ jobs[j].status = COMPLETED /\ TruthyList(jobs[j].output_files)
        /\ validate_job_for_inference(jobs, j, Owner(j)).job = Some(jobs[j])
        /\ jobs[k].status = COMPLETED /\ ~TruthyList(jobs[k].output_files)
        /\ validate_job_for_inference(jobs, k, Owner(k)).detail = NO_OUTPUT_FILES

\* C6: in every state a job has output files exactly when it is completed.
C6_OutputFilesIffCompleted ==
    \A j \in DOMAIN jobs :
        TruthyList(jobs[j].output_files) <=> jobs[j].status = COMPLETED

\* C7: while a job is processing, no step stores a progress lower than the
\* one stored before it.
C7_ProgressNonDecreasing ==
    [][\A j \in DOMAIN jobs \cap DOMAIN jobs' :
          (jobs[j].status = PROCESSING /\ jobs'[j].status = PROCESSING)
              => jobs'[j].progress >= jobs[j].progress]_vars

\* C8: the stored progress of every job is an integer from 0 to 100.
C8_ProgressInRange ==
    \A j \in DOMAIN jobs : jobs[j].progress \in 0 .. 100

\* C9: every inference job created takes its input_files from the
\* output_files of a completed preprocess job of the same owner.
C9_InferenceSourceIsPreprocess ==
    [][\A j \in DOMAIN jobs' \ DOMAIN jobs :
          jobs'[j].job_type = JOB_TYPE_INFERENCE =>
              \E s \in DOMAIN jobs :
                  /\ jobs[s].job_type = JOB_TYPE_PREPROCESS
                  /\ jobs[s].status = COMPLETED
                  /\ jobs[s].user_id = jobs'[j].user_id
                  /\ jobs'[j].input_files = jobs[s].output_files]_vars

\* Messages of job j waiting in a queue, and executions of job j.
Queued(j) == \E q \in Queues : \E i \in 1 .. Len(queue[q]) : queue[q][i].job_id = j
Executing(j) == \E e \in workers : e.job_id = j

\* C10: a publish that fails in trigger_celery_task (in trigger_job or in
\* run_inference) raises to the caller, enqueues nothing and writes no job
\* record; a job that is pending stays pending and its owner's next
\* trigger_job is accepted for publishing.
C10_FailedPublishIsRetriable ==
    [][/\ (req # Idle /\ req' = Idle /\ published' = published) =>
              LET j == req.job[1].id
              IN /\ trigger_job_publish(queue, published + 1, req, FALSE).reply.exc = PlainException
                 /\ queue' = queue
                 /\ jobs' = jobs
                 /\ (j \in DOMAIN jobs /\ jobs[j].status = PENDING) =>
                        /\ jobs'[j].status = PENDING
                        /\ trigger_job_check(jobs', j, Owner(j)).publish # Idle
       /\ \A j \in DOMAIN jobs' \ DOMAIN jobs :
              (jobs'[j].job_type = JOB_TYPE_INFERENCE /\ published' = published) =>
                  /\ \E s \in DOMAIN jobs :
                        run_inference(jobs, queue, j, published + 1, now, jobs'[j].user_id, s, FALSE).reply.exc = PlainException
                  /\ queue' = queue
                  /\ \A k \in DOMAIN jobs : jobs'[k] = jobs[k]
                  /\ jobs'[j].status = PENDING
                  /\ trigger_job_check(jobs', j, jobs'[j].user_id).publish # Idle]_vars

\* An inference job left pending by a failed publish: no message of it is
\* queued, nothing executes it, and its owner's trigger_job would publish.
C10_Witness ==
    \E j \in DOMAIN jobs :
        /\ jobs[j].job_type = JOB_TYPE_INFERENCE
        /\ jobs[j].status = PENDING
        /\ ~Queued(j) /\ ~Executing(j)
        /\ req = Idle
        /\ trigger_job_check(jobs, j, Owner(j)).publish # Idle

\* Executions that take a step: replaced or removed in workers'.
Stepping == workers \ workers'

\* C11: a report (progress, completion or failure) of an execution whose job
\* has no row raises nothing, writes no row and leaves every other row as it
\* was: the table after the step is the table before it, and the execution
\* goes on to its next statement as after any report.
C11_ReportOnMissingJobIsNoOp ==
    [][\A e \in Stepping :
          e.job_id \notin DOMAIN jobs =>
              /\ jobs' = jobs
              /\ (e.task = TASK_PREPROCESS /\ InPcs(PreprocessPcs, e.pc)) =>
                     \/ workers' = SetExecution(e, PreprocessAfterReport(e))
                     \/ workers' = workers \ {e}
              /\ (e.task = TASK_INFERENCE /\ InPcs(InferencePcs, e.pc)) =>
                     \/ workers' = SetExecution(e, InferenceAfterReport(e))
                     \/ workers' = SetExecution(e, [e EXCEPT !.idx = @ + 1, !.pc = InferenceLoop(e)])
                     \/ workers' = workers \ {e}]_vars

\* An execution past its first report although no row of its job was ever
\* stamped by a report (the clock counts only the creations): the job was
\* deleted before the execution started.
C11_Witness ==
    \E e \in workers :
        /\ e.job_id \notin DOMAIN jobs
        /\ e.pc \notin {"start", "L89", "L100"}
        /\ now = nextId

\* The pairs preprocess_pipeline_task produces for n files of job j, in
\* input order.
ExpectedPairs(j, n) ==
    [i \in 1 .. n |-> PairEntry(OutputPath(j, "hr", i - 1), OutputPath(j, "lr", i - 1))]

\* C12: when the only execution of a preprocess job makes its COMPLETED
\* report, the row reads status completed, progress 100 and output_files
\* equal to the reported list: one {hr, lr} pair per input file, in input
\* order.
C12_PreprocessEndToEnd ==
    [][\A e \in Stepping :
          LET j == e.job_id
          IN (/\ PreprocessComplete(e)
              /\ j \in DOMAIN jobs
              /\ ~Queued(j) /\ \A e2 \in workers : e2.job_id = j => e2 = e)
             => /\ jobs'[j].status = COMPLETED
                /\ jobs'[j].progress = 100
                /\ jobs'[j].output_files = Some(e.output_files)
                /\ jobs[j].input_files = Some(e.file_paths)
                /\ e.output_files = ExpectedPairs(j, Len(e.file_paths))
                /\ jobs'[j].completed_at # None]_vars

\* A job dispatched once (one message published in all) that completed with
\* the two pairs of its two input files.
C12_Witness ==
    \E j \in DOMAIN jobs :
        /\ published = 1 /\ workers = {}
        /\ jobs[j].status = COMPLETED /\ jobs[j].progress = 100
        /\ Len(jobs[j].input_files[1]) = 2
        /\ jobs[j].output_files = Some(ExpectedPairs(j, 2))

\* C13: run_inference by the owner of a source job that is not completed
\* raises InvalidJobState and neither inserts a job nor publishes; for a
\* completed source job with output files (and a reachable broker) it
\* inserts one pending inference job and publishes exactly one message, for
\* that job.  Every step that inserts an inference job has such a source.
C13_RunInferenceGate ==
    /\ [](\A s \in DOMAIN jobs :
            LET r == run_inference(jobs, queue, nextId, published + 1, now, Owner(s), s, TRUE)
            IN /\ jobs[s].status # COMPLETED =>
                      /\ r.reply.exc = InvalidJobState
                      /\ r.jobs = jobs
                      /\ r.queue = queue
               /\ (jobs[s].status = COMPLETED /\ TruthyList(jobs[s].output_files)) =>
                      /\ r.reply.exc = NoExc
                      /\ r.reply.job_id = nextId
                      /\ DOMAIN r.jobs = DOMAIN jobs \cup {nextId}
                      /\ \A k \in DOMAIN jobs : r.jobs[k] = jobs[k]
                      /\ r.jobs[nextId].status = PENDING
                      /\ r.jobs[nextId].job_type = JOB_TYPE_INFERENCE
                      /\ r.jobs[nextId].user_id = Owner(s)
                      /\ r.queue[QUEUE_PREPROCESSING] = queue[QUEUE_PREPROCESSING]
                      /\ Len(r.queue[QUEUE_INFERENCE]) = Len(queue[QUEUE_INFERENCE]) + 1
                      /\ SubSeq(r.queue[QUEUE_INFERENCE], 1, Len(queue[QUEUE_INFERENCE])) = queue[QUEUE_INFERENCE]
                      /\ r.queue[QUEUE_INFERENCE][Len(r.queue[QUEUE_INFERENCE])].job_id = nextId)
    /\ [][\A j \in DOMAIN jobs' \ DOMAIN jobs :
             jobs'[j].job_type = JOB_TYPE_INFERENCE =>
                 /\ DOMAIN jobs' = DOMAIN jobs \cup {j}
                 /\ jobs'[j].status = PENDING
                 /\ \E s \in DOMAIN jobs :
                       /\ jobs[s].status = COMPLETED /\ TruthyList(jobs[s].output_files)
                       /\ jobs[s].user_id = jobs'[j].user_id
                       /\ jobs'[j].input_files = jobs[s].output_files
                 /\ published' = published + 1 =>
                       queue' = [queue EXCEPT ![QUEUE_INFERENCE] =
                                    Append(@, Message(published', TASK_INFERENCE, j, jobs'[j].input_files[1], j, Some(QUEUE_INFERENCE)))]]_vars

\* A pending inference job with its one message queued, created from a
\* completed job while no other job is completed.
C13_Witness ==
    \E j \in DOMAIN jobs :
        /\ jobs[j].job_type = JOB_TYPE_INFERENCE /\ jobs[j].status = PENDING
        /\ Len(queue[QUEUE_INFERENCE]) = 1 /\ queue[QUEUE_INFERENCE][1].job_id = j
        /\ ~Executing(j)
        /\ run_inference(jobs, queue, nextId, published + 1, now, Owner(j), j, TRUE).reply.exc = InvalidJobState

\* C14: with worker processes that keep running, every job that has a
\* message queued or an execution running is eventually completed or failed,
\* or deleted.
C14_DispatchedJobTerminates ==
    \A j \in 1 .. PipelineJobs :
        (j \in DOMAIN jobs /\ (Queued(j) \/ Executing(j)))
            ~> (j \notin DOMAIN jobs \/ jobs[j].status \in Terminal)

\* An inference job, dispatched once, that its execution brought to
\* completed, with nothing left queued or running.
C14_Witness ==
    \E j \in DOMAIN jobs :
        /\ jobs[j].job_type = JOB_TYPE_INFERENCE
        /\ jobs[j].status = COMPLETED /\ jobs[j].started_at # None
        /\ ~Queued(j) /\ ~Executing(j)

\* C15: delete_job by the owner removes the job row and raises nothing,
\* whether or not the deletion of the job's files fails.
C15_DeleteSurvivesCleanupFailure ==
    \A j \in DOMAIN jobs : \A cleanupFails \in BOOLEAN, fk \in BOOLEAN :
        LET d == delete_job(jobs, files, j, Owner(j), cleanupFails, fk)
        IN d.reply.exc = NoExc /\ j \notin DOMAIN d.jobs

\* C16: a get, delete or re-trigger request for a job by a principal who is
\* not its owner leaves the jobs table and the files table as they are, hands
\* out no row and leaves nothing to publish, whatever the job's status.
C16_ForeignRequestChangesNothing ==
    \A j \in DOMAIN jobs : \A u \in Users \ {Owner(j)} :
        /\ \A cleanupFails \in BOOLEAN, fk \in BOOLEAN :
              LET d == delete_job(jobs, files, j, u, cleanupFails, fk)
              IN d.jobs = jobs /\ d.files = files /\ d.reply.exc # NoExc
        /\ trigger_job_check(jobs, j, u).publish = Idle
        /\ trigger_job_check(jobs, j, u).reply.exc # NoExc
        /\ get_job(jobs, j, u).exc # NoExc
        /\ get_job_by_id(jobs, j, u).job = None

\* Jobs of one principal in the states pending and completed, with rows in
\* the files table, which the other principal's delete leaves in place.
C16_Witness ==
    \E j \in DOMAIN jobs, k \in DOMAIN jobs : \E u \in Users \ {Owner(j), Owner(k)} :
        /\ jobs[j].status = PENDING /\ jobs[k].status = COMPLETED
        /\ \E f \in files : f.job_id = k
        /\ delete_job(jobs, files, k, u, FALSE, FALSE).jobs = jobs
        /\ delete_job(jobs, files, j, u, FALSE, FALSE).reply.exc = NotFound

\* The messages waiting in the queues.
QueuedMessages == UNION {{queue[q][i] : i \in 1 .. Len(queue[q])} : q \in Queues}

\* C17: every published message has task_id equal to its job's id and waits
\* in the queue of the job's type: preprocess_pipeline_task messages of
\* preprocess jobs in "preprocessing", inference_task messages of inference
\* jobs in "inference".
C17_MessageKeyAndQueue ==
    /\ \A q \in Queues : \A i \in 1 .. Len(queue[q]) :
          LET m == queue[q][i]
          IN /\ m.task_id = m.job_id
             /\ m.queue = q
             /\ m.task = TASK_PREPROCESS <=> q = QUEUE_PREPROCESSING
             /\ m.task = TASK_INFERENCE <=> q = QUEUE_INFERENCE
             /\ m.job_id \in DOMAIN jobs =>
                   /\ jobs[m.job_id].job_type = JOB_TYPE_PREPROCESS <=> q = QUEUE_PREPROCESSING
                   /\ jobs[m.job_id].job_type = JOB_TYPE_INFERENCE <=> q = QUEUE_INFERENCE
    /\ \A e \in workers : e.job_id \in DOMAIN jobs =>
          (jobs[e.job_id].job_type = JOB_TYPE_PREPROCESS <=> e.task = TASK_PREPROCESS)

\* The message of run_inference and the message of a trigger_job for the
\* same pending inference job, both waiting in "inference".
C17_Witness ==
    \E j \in DOMAIN jobs :
        /\ jobs[j].job_type = JOB_TYPE_INFERENCE
        /\ Len(queue[QUEUE_INFERENCE]) = 2
        /\ \A m \in QueuedMessages : m.job_id = j /\ m.task_id = j

\* The ids of the rows u owns in table db.
OwnedIds(db, u) == {j \in DOMAIN db : db[j].user_id = u}

\* C18: get_user_jobs(u) lists exactly the rows u owns, each once, newest
\* created first; a step that leaves the rows of u as they are (other
\* principals' jobs created, changed or deleted) leaves the list as it is.
C18_UserJobsNewestFirst ==
    /\ [](\A u \in Users :
            LET r == get_user_jobs(jobs, u)
            IN /\ Len(r) = Cardinality(OwnedIds(jobs, u))
               /\ {r[i].id : i \in 1 .. Len(r)} = OwnedIds(jobs, u)
               /\ \A i \in 1 .. Len(r) : r[i] = jobs[r[i].id]
               /\ \A i \in 1 .. Len(r), k \in 1 .. Len(r) :
                     i < k => r[i].created_at >= r[k].created_at)
    /\ [][\A u \in Users :
             (/\ OwnedIds(jobs', u) = OwnedIds(jobs, u)
              /\ \A j \in OwnedIds(jobs, u) : jobs'[j] = jobs[j])
             => get_user_jobs(jobs', u) = get_user_jobs(jobs, u)]_vars

\* One principal owns two jobs, listed the later one first, while the other
\* principal's list is empty.
C18_Witness ==
    \E u \in Users :
        LET r == get_user_jobs(jobs, u)
        IN /\ Len(r) = 2
           /\ r[1].id = 2 /\ r[2].id = 1
           /\ r[1].created_at > r[2].created_at
           /\ \A u2 \in Users \ {u} : get_user_jobs(jobs, u2) = << >>

\* A row as both creation paths must leave it.
FreshRow(row) ==
    /\ row.status = PENDING /\ row.progress = 0
    /\ row.output_files = None /\ row.error_message = None
    /\ row.started_at = None /\ row.completed_at = None

\* C19: every row a step inserts (by upload_and_preprocess or by create_job
\* in run_inference) has status pending, progress 0, no output_files, no
\* error_message, no started_at and no completed_at.
C19_CreatedPending ==
    /\ [][\A j \in DOMAIN jobs' \ DOMAIN jobs : FreshRow(jobs'[j])]_vars
    /\ [](\A u \in Users, n \in 1 .. MaxFiles, tooLarge \in BOOLEAN :
            /\ FreshRow(create_job(nextId, u, JOB_TYPE_INFERENCE, None, now))
            /\ FreshRow(upload_and_preprocess(jobs, files, queue, nextId, published + 1, now, u, n, tooLarge, TRUE).jobs[nextId]))

\* An inference job just inserted by create_job beside the preprocess job it
\* draws on, which upload_and_preprocess inserted first.
C19_Witness ==
    \E j \in DOMAIN jobs, k \in DOMAIN jobs :
        /\ jobs[j].job_type = JOB_TYPE_INFERENCE /\ jobs[j].created_at = now - 1
        /\ FreshRow(jobs[j]) /\ Queued(j)
        /\ jobs[k].job_type = JOB_TYPE_PREPROCESS /\ jobs[k].created_at = 1

\* C20: JobService.update_job_status and JobService.update_job_progress for
\* an id without a row raise ResourceNotFoundException and leave the table
\* as it is.
C20_ServiceUpdateOfMissingJob ==
    \A j \in 1 .. ServiceJobs + 1 : j \notin DOMAIN jobs =>
        /\ \A status \in JobStatus, error_message \in ServiceErrors, output_files \in ServiceOutputs, metrics \in ServiceMetrics :
              LET r == service_update_job_status(jobs, j, status, error_message, output_files, metrics, now)
              IN r.exc = NotFound /\ r.jobs = jobs
        /\ \A progress \in ServiceProgress :
              LET r == update_job_progress(jobs, j, progress)
              IN r.exc = NotFound /\ r.jobs = jobs

\* The only row was brought to completed and then deleted: its id has no
\* row any more, and an id never handed out has none either.
C20_Witness ==
    /\ jobs = << >> /\ nextId = 2 /\ now > 2
    /\ service_update_job_status(jobs, 1, FAILED, None, None, None, now).exc = NotFound
    /\ update_job_progress(jobs, 2, 50).exc = NotFound

\* C21: a progress, completion or failure report on a job that is completed
\* or failed is refused with InvalidState and leaves the row as it is, by
\* either worker update_job_status and by JobService.update_job_status.
C21_ReportOnTerminalJobRefused ==
    \A j \in DOMAIN jobs : jobs[j].status \in Terminal =>
        /\ preprocess_update_job_status(jobs, j, PROCESSING, Some(0), None, None, None, None, now) = jobs
        /\ preprocess_update_job_status(jobs, j, FAILED, None, Some("boom"), None, None, None, now) = jobs
        /\ inference_update_job_status(jobs, j, PROCESSING, Some(0), None, None, None, None, now) = jobs
        /\ inference_update_job_status(jobs, j, COMPLETED, Some(100), None, Some(<< >>), None, Some({}), now) = jobs
        /\ LET r == service_update_job_status(jobs, j, PROCESSING, None, None, None, now)
           IN r.exc = InvalidJobState /\ r.jobs = jobs

\* C22: completed_at is unset while a job is pending or processing, is set
\* once the job is completed or failed, and once set never changes.
C22_CompletedAtSetOnceAtTerminal ==
    /\ [](\A j \in DOMAIN jobs :
            /\ jobs[j].status \in {PENDING, PROCESSING} => jobs[j].completed_at = None
            /\ jobs[j].status \in Terminal => jobs[j].completed_at # None)
    /\ [][\A j \in DOMAIN jobs \cap DOMAIN jobs' :
             jobs[j].completed_at # None => jobs'[j].completed_at = jobs[j].completed_at]_vars

\* C23: started_at is unset while a job is pending and set once it has left
\* pending; the report that takes the job from pending to processing sets it
\* to the time of that report, and no later step (of the same or of a second
\* execution, nor a call of JobService.update_job_status) changes it.
C23_StartedAtSetOnce ==
    /\ [](\A j \in DOMAIN jobs :
            /\ jobs[j].status = PENDING <=> jobs[j].started_at = None
            /\ jobs[j].started_at # None =>
                  \A status \in JobStatus :
                      service_update_job_status(jobs, j, status, None, None, None, now).jobs[j].started_at = jobs[j].started_at)
    /\ [][\A j \in DOMAIN jobs \cap DOMAIN jobs' :
             /\ jobs[j].started_at # None => jobs'[j].started_at = jobs[j].started_at
             /\ (jobs[j].status = PENDING /\ jobs'[j].status = PROCESSING) =>
                    jobs'[j].started_at = Some(now)]_vars

\* The job was completed by its first execution and is being processed by
\* the second one, past its first reports; started_at is still the time
\* before the completion.
C23_Witness ==
    \E j \in DOMAIN jobs : \E e \in workers :
        /\ e.job_id = j /\ e.mid = 2 /\ e.pc \notin {"start", "L89"}
        /\ jobs[j].status = PROCESSING
        /\ jobs[j].completed_at # None /\ jobs[j].started_at # None
        /\ jobs[j].started_at[1] < jobs[j].completed_at[1]

\* C24: a job has an error_message exactly when its status is failed.
C24_ErrorMessageIffFailed ==
    \A j \in DOMAIN jobs :
        TruthyStr(jobs[j].error_message) <=> jobs[j].status = FAILED

\* C25: every completed job has progress 100 and completed_at set, whichever
\* update function recorded the completion.
C25_CompletedMeansFinished ==
    \A j \in DOMAIN jobs :
        jobs[j].status = COMPLETED =>
            jobs[j].progress = 100 /\ jobs[j].completed_at # None

\* C26: when a task raises after its first report and the job's row exists,
\* the row is left failed, with the text of the exception as error_message
\* and without output files.
C26_ExceptionRecordedAsFailed ==
    [][\A e \in Stepping, text \in ErrTexts :
          ((PreprocessFail(e, text) \/ InferenceFail(e, text)) /\ e.job_id \in DOMAIN jobs)
              => /\ jobs'[e.job_id].status = FAILED
                 /\ jobs'[e.job_id].error_message = Some(text)
                 /\ ~TruthyList(jobs'[e.job_id].output_files)]_vars

\* C27: a job whose status is not pending is not pending after any step: no
\* operation writes pending after the creation, so a job goes from pending
\* to processing at most once.
C27_NeverPendingAgain ==
    [][\A j \in DOMAIN jobs \cap DOMAIN jobs' :
          jobs[j].status # PENDING => jobs'[j].status # PENDING]_vars

\* A second execution has started on a job an earlier execution left failed
\* with its error text: the job is processing again, not pending.
C27_Witness ==
    \E j \in DOMAIN jobs : \E e \in workers :
        /\ e.job_id = j /\ e.pc \notin {"start"}
        /\ jobs[j].status = PROCESSING
        /\ TruthyStr(jobs[j].error_message)

\* C28: no step changes the id, the owner or the job_type of a job that
\* exists before and after it, and no step changes the input_files of a job
\* whose status is not pending.
C28_IdentityAndInputsFrozen ==
    [][\A j \in DOMAIN jobs \cap DOMAIN jobs' :
          /\ jobs'[j].id = jobs[j].id
          /\ jobs'[j].user_id = jobs[j].user_id
          /\ jobs'[j].job_type = jobs[j].job_type
          /\ jobs[j].status # PENDING => jobs'[j].input_files = jobs[j].input_files]_vars

\* A completed inference job of u2 that still has the input files it was
\* created with, next to the output files its task stored.
C28_Witness ==
    \E j \in DOMAIN jobs :
        /\ jobs[j].id = j /\ jobs[j].user_id = "u2"
        /\ jobs[j].job_type = JOB_TYPE_INFERENCE
        /\ jobs[j].status = COMPLETED
        /\ TruthyList(jobs[j].input_files) /\ TruthyList(jobs[j].output_files)
        /\ jobs[j].input_files # jobs[j].output_files

\* C29: every message a step publishes carries the id of an existing job and
\* a file list equal to the input_files that job's row holds when the step
\* ends, whichever handler published it.
C29_MessageCarriesStoredInputs ==
    [][\A q \in Queues : \A i \in 1 .. Len(queue'[q]) :
          LET m == queue'[q][i]
          IN m.mid > published =>
                /\ m.job_id \in DOMAIN jobs'
                /\ jobs'[m.job_id].input_files = Some(m.file_paths)]_vars

\* The message of upload_and_preprocess and the message of a later
\* trigger_job, both for a pending job uploaded with two files and both
\* carrying its two stored paths.
C29_Witness ==
    \E j \in DOMAIN jobs :
        /\ jobs[j].job_type = JOB_TYPE_PREPROCESS
        /\ jobs[j].status = PENDING
        /\ jobs[j].input_files # None /\ Len(jobs[j].input_files[1]) = 2
        /\ Len(queue[QUEUE_PREPROCESSING]) = 2
        /\ \A i \in 1 .. 2 :
              /\ queue[QUEUE_PREPROCESSING][i].job_id = j
              /\ queue[QUEUE_PREPROCESSING][i].file_paths = jobs[j].input_files[1]

C31_TriggerPublishesWhilePending ==
    [][(req # Idle /\ published' = published + 1) =>
          /\ req.job[1].id \in DOMAIN jobs
          /\ jobs[req.job[1].id].status = PENDING]_vars

\* C32: delete_job by the owner, with a file cleanup that does not fail,
\* removes the row of a job in any status and raises nothing, also while an
\* execution works on the job; a row once deleted is never there again, and
\* every step of an execution whose job has no row writes no row.
C32_DeleteInAnyStatusIsFinal ==
    /\ [](\A j \in DOMAIN jobs, fk \in BOOLEAN :
             LET d == delete_job(jobs, files, j, Owner(j), FALSE, fk)
             IN /\ d.reply.exc = NoExc
                /\ DOMAIN d.jobs = DOMAIN jobs \ {j}
                /\ \A k \in DOMAIN d.jobs : d.jobs[k] = jobs[k])
    /\ [][/\ \A j \in (1 .. nextId - 1) \ DOMAIN jobs : j \notin DOMAIN jobs'
          /\ \A e \in Stepping :
                e.job_id \notin DOMAIN jobs => jobs' = jobs /\ files' = files]_vars

\* The only job ever created was stamped by a report of its execution and
\* then deleted; the execution is still running, past its first report.
C32_Witness ==
    \E e \in workers :
        /\ nextId = 2 /\ jobs = << >>
        /\ e.job_id = 1
        /\ e.pc \notin {"start", "L89"}
        /\ now > nextId

\* C33: an execution issues no report after its terminal one: the step in
\* which an execution reports completed or failed ends it, no message is
\* executed twice, and so the execution of that message reports nothing
\* afterwards.
C33_OneTerminalReportPerExecution ==
    /\ [](/\ \A e1, e2 \in workers : e1.mid = e2.mid => e1 = e2
          /\ \A e \in workers, m \in QueuedMessages : m.mid # e.mid
          /\ \A e \in workers : e.mid <= published
          /\ \A m \in QueuedMessages : m.mid <= published)
    /\ [][\A e \in Stepping :
             (\/ PreprocessComplete(e) \/ InferenceComplete(e)
              \/ \E text \in ErrTexts : PreprocessFail(e, text) \/ InferenceFail(e, text))
                 => \A e2 \in workers' : e2.mid # e.mid]_vars

\* The only message ever published was executed, its execution reported
\* failed with the text of the exception and ended; nothing runs or waits.
C33_Witness ==
    \E j \in DOMAIN jobs :
        /\ published = 1 /\ workers = {} /\ QueuedMessages = {}
        /\ jobs[j].status = FAILED
        /\ jobs[j].error_message = Some("boom")
        /\ jobs[j].progress < 100

\* C34: trigger_job by the owner of a pending job whose input_files is
\* absent or empty raises InvalidJobState with the no-input-files message
\* and leaves nothing to publish; the request writes no row.
C34_TriggerWithoutInputsIsRefused ==
    \A j \in DOMAIN jobs :
        (jobs[j].status = PENDING /\ ~TruthyList(jobs[j].input_files)) =>
            LET c == trigger_job_check(jobs, j, Owner(j))
            IN /\ c.reply.exc = InvalidJobState
               /\ c.reply.message = NO_INPUT_FILES
               /\ c.publish = Idle

\* A pending job without input_files and without a message (left by an
\* upload that was rejected for its size), with no request in progress.
C34_Witness ==
    \E j \in DOMAIN jobs :
        /\ jobs[j].status = PENDING
        /\ jobs[j].input_files = None
        /\ ~Queued(j) /\ ~Executing(j)
        /\ req = Idle
        /\ published = 0

\* C35: every step of upload_and_preprocess that leaves a new job row
\* behind leaves it with non-empty input_files and with exactly one message
\* published for it; a failed upload leaves no row.
C35_UploadAllOrNothing ==
    [][\A j \in DOMAIN jobs' \ DOMAIN jobs :
          jobs'[j].job_type = JOB_TYPE_PREPROCESS =>
              /\ TruthyList(jobs'[j].input_files)
              /\ published' = published + 1
              /\ \E m \in UNION {{queue'[q][i] : i \in 1 .. Len(queue'[q])} : q \in Queues} :
                    m.mid = published' /\ m.job_id = j]_vars

\* What C36 compares of a job row after an update.
UpdateOutcome(job) ==
    [ status |-> job.status, progress |-> job.progress,
      started |-> job.started_at # None, completed |-> job.completed_at # None,
      error_message |-> job.error_message, output_files |-> job.output_files ]

\* C36: applied to the same row with the same status, error_message and
\* output_files, update_job_status of preprocess_tasks, update_job_status of
\* inference_tasks and JobService.update_job_status leave the same status,
\* progress, started_at and completed_at presence, error_message and
\* output_files.
C36_UpdateImplementationsAgree ==
    \A j \in DOMAIN jobs, status \in JobStatus, error_message \in ServiceErrors, output_files \in ServiceOutputs :
        LET p == preprocess_update_job_status(jobs, j, status, None, error_message, output_files, None, None, now)[j]
            i == inference_update_job_status(jobs, j, status, None, error_message, output_files, None, None, now)[j]
            s == service_update_job_status(jobs, j, status, error_message, output_files, None, now).jobs[j]
        IN /\ UpdateOutcome(p) = UpdateOutcome(i)
           /\ UpdateOutcome(p) = UpdateOutcome(s)

====
